---- MODULE Spec2Model ----
(***************************************************************************)
(* MachinaMind AI Agent: the document-grounding (RAG) subsystem.           *)
(*                                                                         *)
(* Spec       the RAGManager (add_documents, retrieve, index_directory,    *)
(*            _save_index, _load_index), the simulator's setup_rag and the *)
(*            chat endpoint that queries the store.                        *)
(* SpecChunk  chunk_text, run statement by statement on bounded inputs     *)
(*            with 0 <= overlap < chunk_size; SpecChunkAny, with any       *)
(*            overlap.                                                     *)
(* SpecAdd    one RAGManager used directly: the constructor with either    *)
(*            embedding model, add_documents with batches, retrieve.       *)
(* SpecScore  the score of line 198, computed in floating point.           *)
(* SpecUi     the Qt user interface: main, MainWindow's backend management *)
(*            (startBackend, startBackendProcess, checkBackendHealth,      *)
(*            stopBackend), MainPresenter's loads and ApiClient's replies. *)
(* SpecMeasurements, SpecEvents, SpecChat                                  *)
(*            the caches of the user interface's DataModel.                *)
(* SpecArch   setup_rag as docs/architecture.md gives it.                  *)
(***************************************************************************)
EXTENDS Integers, Sequences, FiniteSets, TLC

VARIABLES
    \* the RAGManager object of the simulator process (self.*)
    index, documents, metadata,
    \* the store directory vector_store/
    faissFile, documentsFile, metadataFile,
    \* the *.pdf files of the working directory: name -> extracted text
    pdfs,
    \* setup_rag's position, and the files index_directory has yet to visit
    pc, todo,
    \* what the running (or last) setup_rag did, and the state it started from
    run, pre,
    \* what the chat request served in this state saw and got
    last,
    \* chunk_text's locals
    text, chunk_size, overlap, start, chunks, cpc,
    \* self.model of the RAGManager, and the last call made on it directly
    model, call,
    \* the distances of one search and the scores retrieve makes of them
    dists, scores,
    \* main's position, and MainPresenter::m_view being set
    mainPc, view,
    \* the pre-start probe of startBackend: "none", "pending", "ok", "failed"
    preCheck,
    \* m_backendProcess: "null", or the state of the process it points to
    proc,
    \* m_healthCheckTimer running, m_healthCheckAttempts, the health probes
    \* whose reply has not arrived
    timerActive, attempts, pending,
    \* counts of what has happened so far: probes sent, timeout errors
    \* shown, initialize() calls with and without a view, processes started,
    \* start errors shown; and an initialize() after the timeout error
    probes, timeouts, inits, nullInits, spawns, startErrors, lateInit,
    \* the single shot that clicks Connect is due; the ApiClient requests
    \* under way; what the last reply that finished caused
    connectDue, api, reply,
    \* the caches of the DataModel
    m_measurementsByMachine, m_events, m_chatHistory,
    \* the last call that changed a cache, with the cache as it was before;
    \* the number of addChatMessage calls so far, and what that number was
    \* at the last clearChatHistory
    dcall, sent, clearedAt

ragVars == <<index, documents, metadata, faissFile, documentsFile, metadataFile,
             pdfs, pc, todo, run, pre, last>>
chunkVars == <<text, chunk_size, overlap, start, chunks, cpc>>
apiVars == <<model, call>>
scoreVars == <<dists, scores>>
uiVars == <<mainPc, view, preCheck, proc, timerActive, attempts, pending,
            probes, timeouts, inits, nullInits, spawns, startErrors, lateInit,
            connectDue, api, reply>>
dataVars == <<m_measurementsByMachine, m_events, m_chatHistory, dcall, sent,
              clearedAt>>
vars == <<index, documents, metadata, faissFile, documentsFile, metadataFile,
          pdfs, pc, todo, run, pre, last,
          text, chunk_size, overlap, start, chunks, cpc,
          model, call, dists, scores,
          mainPc, view, preCheck, proc, timerActive, attempts, pending,
          probes, timeouts, inits, nullInits, spawns, startErrors, lateInit,
          connectDue, api, reply,
          m_measurementsByMachine, m_events, m_chatHistory, dcall, sent,
          clearedAt>>

(***************************************************************************)
(* Bounds                                                                  *)
(***************************************************************************)
\* most vectors an index may hold before setup_rag is no longer started
MaxEntries == 2
\* largest top_k a chat request passes to retrieve
MaxTopK == 2
\* longest text handed to chunk_text
MaxTextLen == 5
\* largest chunk_size handed to chunk_text
MaxChunkSize == 4
\* most passages chunk_text may collect before the run is cut off
MaxChunks == 6
\* significant bits of the floats the score is computed in
Precision == 3
\* most health probes whose reply is outstanding at one time
MaxPending == 2
\* the sizes the caches of the DataModel are cut to: 1000 measurements for
\* a machine and 500 events in the source, here at the scale of the ids the
\* model draws from
MeasurementLimit == 2
EventLimit == 2
\* most chat messages added in one run
MaxMessages == 102

(***************************************************************************)
(* Characters and Python's string and list primitives                      *)
(***************************************************************************)
NL == "\n"
SP == " "
Whitespace == {SP, NL}

Min(a, b) == IF a < b THEN a ELSE b
Max(a, b) == IF a > b THEN a ELSE b

\* a slice bound as Python normalises it: negative counts from the end,
\* and the result is clipped to [0, n]
PyBound(i, n) == IF i < 0 THEN Max(i + n, 0) ELSE Min(i, n)

\* s[i:j], 0-based and half-open
PySlice(s, i, j) ==
    LET a == PyBound(i, Len(s))
        b == PyBound(j, Len(s))
    IN  IF a >= b THEN <<>> ELSE SubSeq(s, a + 1, b)

\* s.strip()
Strip(s) ==
    LET keep == {i \in 1..Len(s) : s[i] \notin Whitespace}
    IN  IF keep = {} THEN <<>>
        ELSE SubSeq(s, CHOOSE i \in keep : \A j \in keep : i <= j,
                       CHOOSE i \in keep : \A j \in keep : i >= j)

\* "\n".join(lines)
RECURSIVE Join(_)
Join(lines) ==
    IF lines = <<>> THEN <<>>
    ELSE IF Len(lines) = 1 THEN lines[1]
    ELSE lines[1] \o <<NL>> \o Join(Tail(lines))

\* data.split("\n"): one more piece than there are newlines
RECURSIVE Split(_)
Split(data) ==
    LET nls == {i \in 1..Len(data) : data[i] = NL}
    IN  IF nls = {} THEN <<data>>
        ELSE LET p == CHOOSE i \in nls : \A j \in nls : i <= j
             IN  <<SubSeq(data, 1, p - 1)>> \o Split(SubSeq(data, p + 1, Len(data)))

\* lst[i] with Python's negative indexing; IndexError when out of range
PyInRange(lst, i) == -Len(lst) <= i /\ i < Len(lst)
PyItem(lst, i) == IF i < 0 THEN lst[i + Len(lst) + 1] ELSE lst[i + 1]

(***************************************************************************)
(* The corpus, the embedder and the FAISS index                            *)
(***************************************************************************)
PdfNames == {"m1.pdf", "m2.pdf"}
\* page texts as index_directory joins them: one page, or two pages with
\* the "\n" between them
PdfTexts == {<<"a">>, <<"b", NL, "c">>}
Queries == {<<"a">>, <<"b", "b", "b">>}
Absent == <<"(no file)">>

\* self.model.encode: one vector per input, a function of the text alone
Embed(t) == <<Len(t)>>

\* the model_name the constructor is given: its default, of 384
\* dimensions, or a model of twice as many
DefaultModel == "all-MiniLM-L6-v2"
Models == {DefaultModel, "all-mpnet-base-v2"}
Encode(mdl, t) == IF mdl = DefaultModel THEN Embed(t) ELSE Embed(t) \o Embed(t)

\* faiss.IndexFlatL2(384): the dimension of the default model's vectors
IndexDimension == Len(Embed(<<>>))

\* the squared L2 distance of IndexFlatL2
L2(u, v) == (u[1] - v[1]) * (u[1] - v[1])

\* the distance FAISS reports for a result slot it could not fill
FLT_MAX == 1000

NoIndex == [isNone |-> TRUE, xb |-> <<>>]
IndexFlatL2(xb) == [isNone |-> FALSE, xb |-> xb]

\* the ordinal that comes next in the ranking, given the ordinals taken
Nearest(xb, q, taken) ==
    CHOOSE i \in (1..Len(xb)) \ taken :
        \A j \in (1..Len(xb)) \ taken :
            \/ L2(xb[i], q) < L2(xb[j], q)
            \/ L2(xb[i], q) = L2(xb[j], q) /\ i <= j

RECURSIVE Ranked(_, _, _, _)
Ranked(xb, q, k, taken) ==
    IF k = 0 \/ Cardinality(taken) = Len(xb) THEN <<>>
    ELSE LET i == Nearest(xb, q, taken)
         IN  <<[idx |-> i - 1, dist |-> L2(xb[i], q)]>>
                 \o Ranked(xb, q, k - 1, taken \cup {i})

\* index.search(query_vector, k): always k slots, the unfilled ones
\* labelled -1
search(xb, q, k) ==
    LET hits == Ranked(xb, q, k, {})
    IN  hits \o [i \in 1..(k - Len(hits)) |-> [idx |-> -1, dist |-> FLT_MAX]]

(***************************************************************************)
(* Persistence                                                             *)
(***************************************************************************)
NoFile == [exists |-> FALSE, data |-> <<>>]
File(d) == [exists |-> TRUE, data |-> d]

\* _load_index on a fresh object: raised is the exception of a missing
\* documents.txt or metadata.txt
_load_index(ff, df, mf) ==
    IF ~ff.exists
    THEN [raised |-> FALSE, index |-> NoIndex, documents |-> <<>>, metadata |-> <<>>]
    ELSE IF ~df.exists
    THEN [raised |-> TRUE, index |-> IndexFlatL2(ff.data), documents |-> <<>>,
          metadata |-> <<>>]
    ELSE IF ~mf.exists
    THEN [raised |-> TRUE, index |-> IndexFlatL2(ff.data),
          documents |-> Split(df.data), metadata |-> <<>>]
    ELSE [raised |-> FALSE, index |-> IndexFlatL2(ff.data),
          documents |-> Split(df.data), metadata |-> mf.data]

\* RAGManager(): empty fields, then _load_index
RAGManager(ff, df, mf) == _load_index(ff, df, mf)

(***************************************************************************)
(* retrieve                                                                *)
(***************************************************************************)
\* one formatted result; the score 1.0 / (1.0 + d) is kept as the fraction
\* num / den
Result(m, hit) ==
    [text |-> PyItem(m.documents, hit.idx),
     score |-> [num |-> 1, den |-> 1 + hit.dist],
     metadata |-> PyItem(m.metadata, hit.idx)]

retrieve(m, query, top_k) ==
    IF m.index.isNone
    THEN [raised |-> TRUE, results |-> <<>>]        \* None has no search
    ELSE IF top_k <= 0
    THEN [raised |-> TRUE, results |-> <<>>]        \* FAISS asserts k > 0
    ELSE LET hits == search(m.index.xb, Embed(query), top_k)
         IN  IF \E i \in 1..Len(hits) :
                    \/ ~PyInRange(m.documents, hits[i].idx)
                    \/ ~PyInRange(m.metadata, hits[i].idx)
             THEN [raised |-> TRUE, results |-> <<>>]   \* IndexError
             ELSE [raised |-> FALSE,
                   results |-> [i \in 1..Len(hits) |-> Result(m, hits[i])]]

(***************************************************************************)
(* add_documents and _save_index                                           *)
(***************************************************************************)
\* self._chunk_text(t) for a text of at most chunk_size - overlap
\* characters: the one passage text[0:500].strip()
_chunk_text(t) == Strip(t)

\* the new entries put in front of the old ones
add_documents_Prepends(m, texts, metadatas) ==
    LET chunklist == [i \in 1..Len(texts) |-> _chunk_text(texts[i])]
        embeddings == [i \in 1..Len(chunklist) |-> Embed(chunklist[i])]
    IN  [index |-> IndexFlatL2(embeddings \o m.index.xb),
         documents |-> chunklist \o m.documents,
         metadata |-> metadatas \o m.metadata]

\* the fields of the object after lines 170-182: encode, index.add,
\* documents.extend, metadata.extend
add_documents(m, texts, metadatas) ==
    LET chunklist == [i \in 1..Len(texts) |-> _chunk_text(texts[i])]
        embeddings == [i \in 1..Len(chunklist) |-> Embed(chunklist[i])]
    IN  [index |-> IndexFlatL2(m.index.xb \o embeddings),
         documents |-> m.documents \o chunklist,
         metadata |-> m.metadata \o metadatas]

\* the three artifacts as _save_index writes them
SavedFaiss(idx) == File(idx.xb)
SavedDocuments(docs) == File(Join(docs))
SavedMetadata(meta) == File(meta)

(***************************************************************************)
(* The simulator: setup_rag, index_directory                               *)
(***************************************************************************)
Present(files) == {n \in PdfNames : files[n] # Absent}

NoRun == [force |-> FALSE, existed |-> FALSE, embedded |-> FALSE,
          wrote |-> FALSE, result |-> "none", cause |-> "none"]
NoPre == [faiss |-> NoFile, documents |-> NoFile, metadata |-> NoFile,
          pdfs |-> [n \in PdfNames |-> Absent]]
NoLast == [at |-> "none", cold |-> FALSE, loadRaised |-> FALSE,
           nv |-> 0, nd |-> 0, nm |-> 0, top_k |-> 0, raised |-> FALSE, nres |-> 0]

Self == [index |-> index, documents |-> documents, metadata |-> metadata]

\* the environment puts a PDF into the working directory, or removes one
PutPdf(n, t) ==
    /\ pc = "idle"
    /\ pdfs[n] # t
    /\ pdfs' = [pdfs EXCEPT ![n] = t]
    /\ UNCHANGED <<index, documents, metadata, faissFile, documentsFile,
                   metadataFile, pc, todo>>
    /\ run' = NoRun
    /\ pre' = NoPre
    /\ last' = NoLast
    /\ UNCHANGED <<chunkVars, apiVars, scoreVars, uiVars, dataVars>>

RemovePdf(n) ==
    /\ pc = "idle"
    /\ pdfs[n] # Absent
    /\ pdfs' = [pdfs EXCEPT ![n] = Absent]
    /\ UNCHANGED <<index, documents, metadata, faissFile, documentsFile,
                   metadataFile, pc, todo>>
    /\ run' = NoRun
    /\ pre' = NoPre
    /\ last' = NoLast
    /\ UNCHANGED <<chunkVars, apiVars, scoreVars, uiVars, dataVars>>

\* setup_rag without the check of the store: it returns early only when
\* there is no PDF
SetupReturnsEarly_NoStoreCheck(force) ==
    Present(pdfs) = {}

\* lines 412-429: no PDFs, or a store that exists and no --reindex
SetupReturnsEarly(force) ==
    \/ Present(pdfs) = {}
    \/ faissFile.exists /\ ~force

\* setup_rag up to the first file of index_directory: the early returns (the
\* process then holds no RAGManager), or RAGManager() and the glob
setup_rag(force) ==
    /\ pc = "idle"
    /\ LET begun == [force |-> force, existed |-> faissFile.exists,
                     embedded |-> FALSE, wrote |-> FALSE, result |-> "running",
                     cause |-> "none"]
           m == RAGManager(faissFile, documentsFile, metadataFile)
       IN  IF SetupReturnsEarly(force)
           THEN /\ run' = [begun EXCEPT !.result =
                               IF Present(pdfs) = {} THEN "nopdfs" ELSE "skipped"]
                /\ index' = NoIndex
                /\ documents' = <<>>
                /\ metadata' = <<>>
                /\ UNCHANGED <<pc, todo>>
           ELSE /\ Len(m.index.xb) + Cardinality(Present(pdfs)) <= MaxEntries
                /\ IF m.raised
                   THEN /\ run' = [begun EXCEPT !.result = "failed", !.cause = "load"]
                        /\ index' = NoIndex
                        /\ documents' = <<>>
                        /\ metadata' = <<>>
                        /\ UNCHANGED <<pc, todo>>
                   ELSE /\ run' = begun
                        /\ index' = m.index
                        /\ documents' = m.documents
                        /\ metadata' = m.metadata
                        /\ todo' = Present(pdfs)
                        /\ pc' = "index_directory"
    /\ pre' = [faiss |-> faissFile, documents |-> documentsFile,
               metadata |-> metadataFile, pdfs |-> pdfs]
    /\ last' = NoLast
    /\ UNCHANGED <<chunkVars, apiVars, scoreVars, uiVars, dataVars>>
    /\ UNCHANGED <<faissFile, documentsFile, metadataFile, pdfs>>

\* one round of index_directory's loop up to _save_index: extract the text,
\* add_documents' lines 170-182
IndexFile(n) ==
    /\ pc = "index_directory"
    /\ n \in todo
    /\ LET m == add_documents(Self, <<pdfs[n]>>, <<[source |-> n]>>)
       IN  /\ index' = m.index
           /\ documents' = m.documents
           /\ metadata' = m.metadata
    /\ todo' = todo \ {n}
    /\ run' = [run EXCEPT !.embedded = TRUE]
    /\ pc' = "write_faiss"
    /\ UNCHANGED <<faissFile, documentsFile, metadataFile, pdfs, pre>>
    /\ last' = NoLast
    /\ UNCHANGED <<chunkVars, apiVars, scoreVars, uiVars, dataVars>>

\* PdfReader cannot read the file: the exception ends setup_rag
ExtractFails(n) ==
    /\ pc = "index_directory"
    /\ n \in todo
    /\ run' = [run EXCEPT !.result = "failed", !.cause = "extract"]
    /\ pc' = "idle"
    /\ todo' = {}
    /\ UNCHANGED <<index, documents, metadata, faissFile, documentsFile,
                   metadataFile, pdfs, pre>>
    /\ last' = NoLast
    /\ UNCHANGED <<chunkVars, apiVars, scoreVars, uiVars, dataVars>>

\* self.model.encode raises: the exception ends setup_rag
EmbedFails(n) ==
    /\ pc = "index_directory"
    /\ n \in todo
    /\ run' = [run EXCEPT !.embedded = TRUE, !.result = "failed",
                           !.cause = "embed"]
    /\ pc' = "idle"
    /\ todo' = {}
    /\ UNCHANGED <<index, documents, metadata, faissFile, documentsFile,
                   metadataFile, pdfs, pre>>
    /\ last' = NoLast
    /\ UNCHANGED <<chunkVars, apiVars, scoreVars, uiVars, dataVars>>

\* _save_index, one file at a time
WriteFaiss ==
    /\ pc = "write_faiss"
    /\ faissFile' = SavedFaiss(index)
    /\ run' = [run EXCEPT !.wrote = TRUE]
    /\ pc' = "write_documents"
    /\ UNCHANGED <<index, documents, metadata, documentsFile, metadataFile,
                   pdfs, todo, pre>>
    /\ last' = NoLast
    /\ UNCHANGED <<chunkVars, apiVars, scoreVars, uiVars, dataVars>>

WriteDocuments ==
    /\ pc = "write_documents"
    /\ documentsFile' = SavedDocuments(documents)
    /\ pc' = "write_metadata"
    /\ UNCHANGED <<index, documents, metadata, faissFile, metadataFile,
                   pdfs, todo, run, pre>>
    /\ last' = NoLast
    /\ UNCHANGED <<chunkVars, apiVars, scoreVars, uiVars, dataVars>>

WriteMetadata ==
    /\ pc = "write_metadata"
    /\ metadataFile' = SavedMetadata(metadata)
    /\ pc' = "index_directory"
    /\ UNCHANGED <<index, documents, metadata, faissFile, documentsFile,
                   pdfs, todo, run, pre>>
    /\ last' = NoLast
    /\ UNCHANGED <<chunkVars, apiVars, scoreVars, uiVars, dataVars>>

\* a write raises (the file it was to replace is left as it was): the
\* exception ends setup_rag
WriteFails ==
    /\ pc \in {"write_faiss", "write_documents", "write_metadata"}
    /\ run' = [run EXCEPT !.result = "failed", !.cause = "write"]
    /\ pc' = "idle"
    /\ todo' = {}
    /\ UNCHANGED <<index, documents, metadata, faissFile, documentsFile,
                   metadataFile, pdfs, pre>>
    /\ last' = NoLast
    /\ UNCHANGED <<chunkVars, apiVars, scoreVars, uiVars, dataVars>>

\* the glob is exhausted: setup_rag prints its success line
SetupDone ==
    /\ pc = "index_directory"
    /\ todo = {}
    /\ run' = [run EXCEPT !.result = "ok"]
    /\ pc' = "idle"
    /\ UNCHANGED <<index, documents, metadata, faissFile, documentsFile,
                   metadataFile, pdfs, todo, pre>>
    /\ last' = NoLast
    /\ UNCHANGED <<chunkVars, apiVars, scoreVars, uiVars, dataVars>>

(***************************************************************************)
(* The simulator's start as docs/architecture.md gives it                  *)
(***************************************************************************)
\* Path(path).glob(file_pattern): the matching files, in any order
Glob(files) ==
    {order \in UNION {[1..k -> Present(files)] : k \in 0..Cardinality(PdfNames)} :
        /\ Len(order) = Cardinality(Present(files))
        /\ \A i, j \in 1..Len(order) : i # j => order[i] # order[j]}

\* index_directory, part_005 lines 207-218: the object after add_documents
\* has been called for every file of the glob
RECURSIVE index_directory(_, _, _)
index_directory(m, files, order) ==
    IF order = <<>> THEN m
    ELSE index_directory(
             add_documents(m, <<files[Head(order)]>>, <<[source |-> Head(order)]>>),
             files, Tail(order))

\* for pdf in pdfs: rag_manager.index_directory(".", file_pattern="*.pdf"),
\* lines 230-231, with rounds of the loop to go
RECURSIVE IndexPdfs(_, _, _, _)
IndexPdfs(m, files, order, rounds) ==
    IF rounds = 0 THEN m
    ELSE IndexPdfs(index_directory(m, files, order), files, order, rounds - 1)

\* the block under __main__ of data_simulator.py, lines 211-232, run to its
\* end without an exception
data_simulator_main(force_reindex) ==
    /\ pc = "idle"
    /\ LET begun == [force |-> force_reindex, existed |-> faissFile.exists,
                     embedded |-> FALSE, wrote |-> FALSE, result |-> "running",
                     cause |-> "none"]
           rag_manager == RAGManager(faissFile, documentsFile, metadataFile)
           found == Cardinality(Present(pdfs))
       IN  IF found = 0 \/ (faissFile.exists /\ ~force_reindex)
           THEN /\ run' = [begun EXCEPT !.result =
                               IF found = 0 THEN "nopdfs" ELSE "skipped"]
                /\ index' = NoIndex
                /\ documents' = <<>>
                /\ metadata' = <<>>
                /\ UNCHANGED <<faissFile, documentsFile, metadataFile>>
           ELSE /\ ~rag_manager.raised
                /\ Len(rag_manager.index.xb) + found * found
                       <= MaxEntries * MaxEntries
                /\ \E order \in Glob(pdfs) :
                       LET m == IndexPdfs([index |-> rag_manager.index,
                                           documents |-> rag_manager.documents,
                                           metadata |-> rag_manager.metadata],
                                          pdfs, order, found)
                       IN  /\ index' = m.index
                           /\ documents' = m.documents
                           /\ metadata' = m.metadata
                           /\ faissFile' = SavedFaiss(m.index)
                           /\ documentsFile' = SavedDocuments(m.documents)
                           /\ metadataFile' = SavedMetadata(m.metadata)
                /\ run' = [begun EXCEPT !.embedded = TRUE, !.wrote = TRUE,
                                        !.result = "ok"]
    /\ pre' = [faiss |-> faissFile, documents |-> documentsFile,
               metadata |-> metadataFile, pdfs |-> pdfs]
    /\ last' = NoLast
    /\ UNCHANGED <<pdfs, pc, todo>>
    /\ UNCHANGED <<chunkVars, apiVars, scoreVars, uiVars, dataVars>>

(***************************************************************************)
(* The chat endpoint: LLMAgent() builds a RAGManager, query retrieves      *)
(***************************************************************************)
Aligned(m) ==
    /\ Len(m.index.xb) = Len(m.documents)
    /\ Len(m.documents) = Len(m.metadata)

chat(query, top_k) ==
    LET m == RAGManager(faissFile, documentsFile, metadataFile)
        r == IF m.raised THEN [raised |-> TRUE, results |-> <<>>]
             ELSE retrieve(m, query, top_k)
    IN  /\ last' = [at |-> pc, cold |-> ~faissFile.exists, loadRaised |-> m.raised,
                    nv |-> Len(m.index.xb), nd |-> Len(m.documents),
                    nm |-> Len(m.metadata), top_k |-> top_k,
                    raised |-> r.raised, nres |-> Len(r.results)]
        /\ UNCHANGED <<index, documents, metadata, faissFile, documentsFile,
                       metadataFile, pdfs, pc, todo, run, pre>>
        /\ UNCHANGED <<chunkVars, apiVars, scoreVars, uiVars, dataVars>>

(***************************************************************************)
(* The score of line 198, 1.0 / (1.0 + distances[0][i]), in floating point *)
(***************************************************************************)
RECURSIVE Pow2(_)
Pow2(n) == IF n = 0 THEN 1 ELSE 2 * Pow2(n - 1)

\* a float is 0 or m * 2^e with a significand m of Precision bits
Zero == [m |-> 0, e |-> 0]
One == [m |-> Pow2(Precision - 1), e |-> 1 - Precision]

\* the exact value of a float, as a fraction
Value(f) ==
    IF f.e >= 0 THEN [num |-> f.m * Pow2(f.e), den |-> 1]
    ELSE [num |-> f.m, den |-> Pow2(0 - f.e)]

\* f < g
Less(f, g) == Value(f).num * Value(g).den < Value(g).num * Value(f).den

\* the fraction r divided by 2^e
Scaled(r, e) ==
    IF e >= 0 THEN [num |-> r.num, den |-> r.den * Pow2(e)]
    ELSE [num |-> r.num * Pow2(0 - e), den |-> r.den]

\* the exponents a result can have for the distances below
Exponents == (0 - 4 * Precision)..(3 * Precision)

\* num / den rounded to the nearest integer, a tie to the even one
RoundHalfEven(num, den) ==
    LET q == num \div den
        r == num % den
    IN  IF 2 * r < den THEN q
        ELSE IF 2 * r > den THEN q + 1
        ELSE IF q % 2 = 0 THEN q ELSE q + 1

\* the float nearest to the fraction r > 0
Round(r) ==
    LET e == CHOOSE x \in Exponents :
                 /\ Pow2(Precision - 1) * Scaled(r, x).den <= Scaled(r, x).num
                 /\ Scaled(r, x).num < Pow2(Precision) * Scaled(r, x).den
        m == RoundHalfEven(Scaled(r, e).num, Scaled(r, e).den)
    IN  IF m = Pow2(Precision) THEN [m |-> Pow2(Precision - 1), e |-> e + 1]
        ELSE [m |-> m, e |-> e]

\* f + g and f / g as the machine computes them: the exact result, rounded
FAdd(f, g) ==
    IF f.m = 0 THEN g
    ELSE IF g.m = 0 THEN f
    ELSE Round([num |-> Value(f).num * Value(g).den + Value(g).num * Value(f).den,
                den |-> Value(f).den * Value(g).den])

FDiv(f, g) ==
    Round([num |-> Value(f).num * Value(g).den,
           den |-> Value(f).den * Value(g).num])

\* the distance shifted by one and not inverted
Score_NoReciprocal(d) == FAdd(One, d)

\* line 198
Score(d) == FDiv(One, FAdd(One, d))

\* the squared distances a search can report: 0 for an identical vector,
\* and the floats from far below the spacing of the floats at 1.0 upwards
Distances ==
    {Zero} \cup [m : Pow2(Precision - 1)..(Pow2(Precision) - 1),
                 e : (0 - 2 * Precision - 1)..2]

\* lines 196-203: one score per slot of the search's result
FormatResults ==
    /\ dists # <<>>
    /\ scores = <<>>
    /\ scores' = [i \in 1..Len(dists) |-> Score(dists[i])]
    /\ UNCHANGED dists
    /\ UNCHANGED <<ragVars, chunkVars, apiVars, uiVars, dataVars>>

(***************************************************************************)
(* One RAGManager used directly                                            *)
(***************************************************************************)
\* texts a caller hands to add_documents, and the metadata it attaches
AddTexts == PdfTexts \cup {<<SP, "a", "a">>}
Metadatas == {[source |-> n] : n \in PdfNames}
Batches ==
    UNION {[texts : [1..k -> AddTexts], metadatas : [1..k -> Metadatas]] :
               k \in 1..MaxEntries}

NoCall == [op |-> "none", before |-> [index |-> NoIndex, documents |-> <<>>,
                                      metadata |-> <<>>],
           texts |-> <<>>, metadatas |-> <<>>, raised |-> FALSE]

\* RAGManager(model_name=mdl): the object is what _load_index reads from
\* the store
Construct(mdl) ==
    LET m == RAGManager(faissFile, documentsFile, metadataFile)
    IN  /\ pc = "idle"
        /\ model' = mdl
        /\ index' = m.index
        /\ documents' = m.documents
        /\ metadata' = m.metadata
        /\ call' = [NoCall EXCEPT !.op = "construct", !.before = Self,
                                  !.raised = m.raised]
        /\ UNCHANGED <<faissFile, documentsFile, metadataFile, pdfs, pc, todo,
                       run, pre, last>>
        /\ UNCHANGED <<chunkVars, scoreVars, uiVars, dataVars>>

\* add_documents with the texts appended before index.add is called
AddDocuments_ExtendsFirst(texts, metadatas) ==
    LET chunklist == [i \in 1..Len(texts) |-> _chunk_text(texts[i])]
        embeddings == [i \in 1..Len(chunklist) |-> Encode(model, chunklist[i])]
        made == add_documents(Self, texts, metadatas)
        began == [op |-> "add", before |-> Self, texts |-> texts,
                  metadatas |-> metadatas, raised |-> FALSE]
    IN  /\ pc = "idle"
        /\ Len(index.xb) + Len(texts) <= MaxEntries
        /\ IF \E i \in 1..Len(embeddings) : Len(embeddings[i]) # IndexDimension
           THEN /\ index' = IF index.isNone THEN IndexFlatL2(<<>>) ELSE index
                /\ documents' = documents \o chunklist
                /\ metadata' = metadata \o metadatas
                /\ call' = [began EXCEPT !.raised = TRUE]
                /\ UNCHANGED <<faissFile, documentsFile, metadataFile>>
           ELSE /\ index' = made.index
                /\ documents' = made.documents
                /\ metadata' = made.metadata
                /\ faissFile' = SavedFaiss(made.index)
                /\ documentsFile' = SavedDocuments(made.documents)
                /\ metadataFile' = SavedMetadata(made.metadata)
                /\ call' = began
        /\ UNCHANGED <<pdfs, pc, todo, run, pre, last, model>>
        /\ UNCHANGED <<chunkVars, scoreVars, uiVars, dataVars>>

\* add_documents, lines 167-185, with the three writes of _save_index:
\* index.add refuses vectors that are not of the index's dimension, after
\* line 177 has made the index and before line 181 extends the lists
AddDocuments(texts, metadatas) ==
    LET chunklist == [i \in 1..Len(texts) |-> _chunk_text(texts[i])]
        embeddings == [i \in 1..Len(chunklist) |-> Encode(model, chunklist[i])]
        made == add_documents(Self, texts, metadatas)
        began == [op |-> "add", before |-> Self, texts |-> texts,
                  metadatas |-> metadatas, raised |-> FALSE]
    IN  /\ pc = "idle"
        /\ Len(index.xb) + Len(texts) <= MaxEntries
        /\ IF \E i \in 1..Len(embeddings) : Len(embeddings[i]) # IndexDimension
           THEN /\ index' = IF index.isNone THEN IndexFlatL2(<<>>) ELSE index
                /\ call' = [began EXCEPT !.raised = TRUE]
                /\ UNCHANGED <<documents, metadata, faissFile, documentsFile,
                               metadataFile>>
           ELSE /\ index' = made.index
                /\ documents' = made.documents
                /\ metadata' = made.metadata
                /\ faissFile' = SavedFaiss(made.index)
                /\ documentsFile' = SavedDocuments(made.documents)
                /\ metadataFile' = SavedMetadata(made.metadata)
                /\ call' = began
        /\ UNCHANGED <<pdfs, pc, todo, run, pre, last, model>>
        /\ UNCHANGED <<chunkVars, scoreVars, uiVars, dataVars>>

\* retrieve called on the object: index.search refuses a query vector that
\* is not of the index's dimension
Retrieve(query, top_k) ==
    LET r == IF ~index.isNone /\ Len(Encode(model, query)) # IndexDimension
             THEN [raised |-> TRUE, results |-> <<>>]
             ELSE retrieve(Self, query, top_k)
    IN  /\ pc = "idle"
        /\ call' = [NoCall EXCEPT !.op = "retrieve", !.before = Self,
                                  !.raised = r.raised]
        /\ UNCHANGED ragVars
        /\ UNCHANGED <<model, chunkVars, scoreVars, uiVars, dataVars>>

(***************************************************************************)
(* chunk_text                                                              *)
(***************************************************************************)
Alphabet == {"a", ".", "!", "?", SP, NL}
Terminators == << <<".", SP>>, <<"!", SP>>, <<"?", SP>>, <<NL, NL>> >>

\* text.rfind(sub, i, j): the highest position of sub inside text[i:j],
\* or -1
RFind(s, sub, i, j) ==
    LET a == PyBound(i, Len(s))
        b == PyBound(j, Len(s))
        found == {p \in a..(b - Len(sub)) : SubSeq(s, p + 1, p + Len(sub)) = sub}
    IN  IF found = {} THEN -1
        ELSE CHOOSE p \in found : \A r \in found : p >= r

\* the window taken one character too long
WindowEnd_OneTooLong(s, st, size) ==
    LET en == st + size + 1
        hit == {t \in 1..Len(Terminators) : RFind(s, Terminators[t], st, en) # -1}
    IN  IF en < Len(s) /\ hit # {}
        THEN RFind(s, Terminators[CHOOSE t \in hit : \A u \in hit : t <= u], st, en) + 1
        ELSE en

\* lines 129-137: where the window that starts at st ends
WindowEnd(s, st, size) ==
    LET en == st + size
        hit == {t \in 1..Len(Terminators) : RFind(s, Terminators[t], st, en) # -1}
    IN  IF en < Len(s) /\ hit # {}
        THEN RFind(s, Terminators[CHOOSE t \in hit : \A u \in hit : t <= u], st, en) + 1
        ELSE en

\* one round of the while loop
ChunkStep ==
    /\ cpc = "loop"
    /\ start < Len(text)
    /\ Len(chunks) < MaxChunks
    /\ LET end == WindowEnd(text, start, chunk_size)
       IN  /\ chunks' = Append(chunks, Strip(PySlice(text, start, end)))
           /\ start' = end - overlap
    /\ UNCHANGED <<text, chunk_size, overlap, cpc>>
    /\ UNCHANGED <<ragVars, apiVars, scoreVars, uiVars, dataVars>>

\* the loop condition fails: return chunks
ChunkReturn ==
    /\ cpc = "loop"
    /\ start >= Len(text)
    /\ cpc' = "done"
    /\ UNCHANGED <<text, chunk_size, overlap, start, chunks>>
    /\ UNCHANGED <<ragVars, apiVars, scoreVars, uiVars, dataVars>>

(***************************************************************************)
(* The Qt user interface                                                   *)
(***************************************************************************)
\* checkBackendHealth gives up when m_healthCheckAttempts > 60
HealthCheckLimit == 60

nonUi == <<ragVars, chunkVars, apiVars, scoreVars, dataVars>>

\* the requests MainPresenter issues, and how a reply can finish: without
\* a network error and with a JSON body, without a network error and with
\* a body that does not parse, with a network error
Endpoints == {"health", "machines", "measurements", "events"}
Outcomes == {"json", "invalid", "neterror"}
NoReply == [kind |-> "none", outcome |-> "none", calls |-> <<>>, shown |-> <<>>]

\* MainPresenter::initialize
initialize ==
    IF view
    THEN /\ inits' = inits + 1
         /\ api' = api \cup {"health", "machines"}
         /\ UNCHANGED nullInits
    ELSE /\ nullInits' = nullInits + 1
         /\ UNCHANGED <<inits, api>>

\* main line 49, new MainWindow(presenter): the constructor ends with
\* startBackend, which sends the pre-start probe
main_MainWindow ==
    /\ mainPc = "presenter"
    /\ mainPc' = "window"
    /\ preCheck' = "pending"
    /\ reply' = NoReply
    /\ UNCHANGED <<view, proc, timerActive, attempts, pending, probes, timeouts,
                   inits, nullInits, spawns, startErrors, lateInit, connectDue,
                   api>>
    /\ UNCHANGED nonUi

\* main goes on without giving the presenter its view
main_setView_Forgets ==
    /\ mainPc = "window"
    /\ mainPc' = "view"
    /\ reply' = NoReply
    /\ UNCHANGED <<view, preCheck, proc, timerActive, attempts, pending, probes,
                   timeouts, inits, nullInits, spawns, startErrors, lateInit,
                   connectDue, api>>
    /\ UNCHANGED nonUi

\* main line 52, presenter->setView(window)
main_setView ==
    /\ mainPc = "window"
    /\ mainPc' = "view"
    /\ view' = TRUE
    /\ reply' = NoReply
    /\ UNCHANGED <<preCheck, proc, timerActive, attempts, pending, probes,
                   timeouts, inits, nullInits, spawns, startErrors, lateInit,
                   connectDue, api>>
    /\ UNCHANGED nonUi

\* main lines 55-57, window->show() and app.exec(): from here on the event
\* loop delivers replies, timer ticks and the user's events
main_exec ==
    /\ mainPc = "view"
    /\ mainPc' = "exec"
    /\ reply' = NoReply
    /\ UNCHANGED <<view, preCheck, proc, timerActive, attempts, pending, probes,
                   timeouts, inits, nullInits, spawns, startErrors, lateInit,
                   connectDue, api>>
    /\ UNCHANGED nonUi

\* a start that failed leaves the handle pointing to the process
startBackendProcess_KeepsHandle(started) ==
    IF proc # "null"
    THEN UNCHANGED <<proc, attempts, timerActive, spawns, startErrors>>
    ELSE IF started
    THEN /\ proc' = "running"
         /\ attempts' = 0
         /\ timerActive' = TRUE
         /\ spawns' = spawns + 1
         /\ UNCHANGED startErrors
    ELSE /\ proc' = "failed"
         /\ startErrors' = startErrors + 1
         /\ UNCHANGED <<attempts, timerActive, spawns>>

\* MainWindow::startBackendProcess; started is what waitForStarted(5000)
\* returns
startBackendProcess(started) ==
    IF proc # "null"
    THEN UNCHANGED <<proc, attempts, timerActive, spawns, startErrors>>
    ELSE IF started
    THEN /\ proc' = "running"
         /\ attempts' = 0
         /\ timerActive' = TRUE
         /\ spawns' = spawns + 1
         /\ UNCHANGED startErrors
    ELSE /\ proc' = "null"
         /\ startErrors' = startErrors + 1
         /\ UNCHANGED <<attempts, timerActive, spawns>>

\* the process is started whatever the pre-start probe said
startBackend_finished_AlwaysStarts(ok, started) ==
    /\ mainPc = "exec"
    /\ preCheck = "pending"
    /\ preCheck' = IF ok THEN "ok" ELSE "failed"
    /\ startBackendProcess(started)
    /\ UNCHANGED <<inits, nullInits, api, connectDue>>
    /\ reply' = NoReply
    /\ UNCHANGED <<mainPc, view, pending, probes, timeouts, lateInit>>
    /\ UNCHANGED nonUi

\* the finished handler of startBackend's pre-start probe, lines 394-411
startBackend_finished(ok, started) ==
    /\ mainPc = "exec"
    /\ preCheck = "pending"
    /\ IF ok
       THEN /\ preCheck' = "ok"
            /\ initialize
            /\ connectDue' = TRUE
            /\ UNCHANGED <<proc, attempts, timerActive, spawns, startErrors>>
       ELSE /\ preCheck' = "failed"
            /\ startBackendProcess(started)
            /\ UNCHANGED <<inits, nullInits, api, connectDue>>
    /\ reply' = NoReply
    /\ UNCHANGED <<mainPc, view, pending, probes, timeouts, lateInit>>
    /\ UNCHANGED nonUi

\* the timer is left running when the attempts are used up
checkBackendHealth_NoStop ==
    /\ mainPc = "exec"
    /\ timerActive
    /\ attempts < HealthCheckLimit => pending < MaxPending
    /\ attempts' = attempts + 1
    /\ IF attempts + 1 > HealthCheckLimit
       THEN /\ timeouts' = timeouts + 1
            /\ UNCHANGED <<timerActive, pending, probes>>
       ELSE /\ pending' = pending + 1
            /\ probes' = probes + 1
            /\ UNCHANGED <<timerActive, timeouts>>
    /\ reply' = NoReply
    /\ UNCHANGED <<mainPc, view, preCheck, proc, inits, nullInits, spawns,
                   startErrors, lateInit, connectDue, api>>
    /\ UNCHANGED nonUi

\* MainWindow::checkBackendHealth, a tick of m_healthCheckTimer: lines
\* 478-496, up to the get that sends the probe
checkBackendHealth ==
    /\ mainPc = "exec"
    /\ timerActive
    /\ attempts < HealthCheckLimit => pending < MaxPending
    /\ attempts' = attempts + 1
    /\ IF attempts + 1 > HealthCheckLimit
       THEN /\ timerActive' = FALSE
            /\ timeouts' = timeouts + 1
            /\ UNCHANGED <<pending, probes>>
       ELSE /\ pending' = pending + 1
            /\ probes' = probes + 1
            /\ UNCHANGED <<timerActive, timeouts>>
    /\ reply' = NoReply
    /\ UNCHANGED <<mainPc, view, preCheck, proc, inits, nullInits, spawns,
                   startErrors, lateInit, connectDue, api>>
    /\ UNCHANGED nonUi

\* the finished handler of a health probe, lines 498-529
checkBackendHealth_finished(ok) ==
    /\ mainPc = "exec"
    /\ pending > 0
    /\ pending' = pending - 1
    /\ IF ok
       THEN /\ timerActive' = FALSE
            /\ initialize
            /\ connectDue' = TRUE
            /\ lateInit' = (lateInit \/ timeouts > 0)
       ELSE UNCHANGED <<timerActive, inits, nullInits, api, connectDue, lateInit>>
    /\ reply' = NoReply
    /\ UNCHANGED <<mainPc, view, preCheck, proc, attempts, probes, timeouts,
                   spawns, startErrors>>
    /\ UNCHANGED nonUi

\* the single shot of lines 404 and 521 fires: onConnectButtonClicked, and
\* MainPresenter::onConnectClicked with the server field's URL
onConnectButtonClicked ==
    /\ mainPc = "exec"
    /\ connectDue
    /\ connectDue' = FALSE
    /\ api' = IF view THEN api \cup {"health"} ELSE api
    /\ reply' = NoReply
    /\ UNCHANGED <<mainPc, view, preCheck, proc, timerActive, attempts, pending,
                   probes, timeouts, inits, nullInits, spawns, startErrors,
                   lateInit>>
    /\ UNCHANGED nonUi

\* the user picks a machine: MainPresenter::onMachineSelected
onMachineSelected ==
    /\ mainPc = "exec"
    /\ inits > 0
    /\ api' = api \cup {"measurements", "events"}
    /\ reply' = NoReply
    /\ UNCHANGED <<mainPc, view, preCheck, proc, timerActive, attempts, pending,
                   probes, timeouts, inits, nullInits, spawns, startErrors,
                   lateInit, connectDue>>
    /\ UNCHANGED nonUi

\* the text handleReply hands to onError and connectionError
ErrorText(outcome) ==
    IF outcome = "invalid" THEN "Invalid JSON response" ELSE "errorString()"

\* a body that does not parse is handed to onSuccess
Callbacks_InvalidIsSuccess(outcome) ==
    IF outcome # "neterror"
    THEN <<[fn |-> "onSuccess", arg |-> "doc"],
           [fn |-> "requestCompleted", arg |-> ""]>>
    ELSE <<[fn |-> "onError", arg |-> ErrorText(outcome)],
           [fn |-> "connectionError", arg |-> ErrorText(outcome)]>>

\* ApiClient::handleReply, lines 167-188: what the finished handler calls
\* and emits, in order
Callbacks(outcome) ==
    IF outcome = "json"
    THEN <<[fn |-> "onSuccess", arg |-> "doc"],
           [fn |-> "requestCompleted", arg |-> ""]>>
    ELSE <<[fn |-> "onError", arg |-> ErrorText(outcome)],
           [fn |-> "connectionError", arg |-> ErrorText(outcome)]>>

\* the prefix the request's error callback puts before the error text
Prefix(kind) ==
    CASE kind = "health" -> "Health Check fehlgeschlagen: "
      [] kind = "machines" -> "Maschinen laden fehlgeschlagen: "
      [] kind = "measurements" -> "Messungen laden fehlgeschlagen: "
      [] kind = "events" -> "Events laden fehlgeschlagen: "

\* the showError calls the presenter makes of them: the request's error
\* callback calls handleApiError, and so does the slot connected to
\* connectionError
Shown(kind, calls) ==
    LET errs == SelectSeq(calls, LAMBDA c : c.fn \in {"onError", "connectionError"})
    IN  IF ~view THEN <<>>
        ELSE [i \in 1..Len(errs) |->
                 [prefix |-> IF errs[i].fn = "onError" THEN Prefix(kind) ELSE "",
                  error |-> errs[i].arg]]

\* the finished handler of an ApiClient request
handleReply_finished(kind, outcome) ==
    /\ mainPc = "exec"
    /\ kind \in api
    /\ api' = api \ {kind}
    /\ reply' = [kind |-> kind, outcome |-> outcome, calls |-> Callbacks(outcome),
                 shown |-> Shown(kind, Callbacks(outcome))]
    /\ UNCHANGED <<mainPc, view, preCheck, proc, timerActive, attempts, pending,
                   probes, timeouts, inits, nullInits, spawns, startErrors,
                   lateInit, connectDue>>
    /\ UNCHANGED nonUi

\* the backend process ends by itself
BackendExits ==
    /\ mainPc = "exec"
    /\ proc = "running"
    /\ proc' = "exited"
    /\ reply' = NoReply
    /\ UNCHANGED <<mainPc, view, preCheck, timerActive, attempts, pending,
                   probes, timeouts, inits, nullInits, spawns, startErrors,
                   lateInit, connectDue, api>>
    /\ UNCHANGED nonUi

\* MainWindow::stopBackend, lines 532-556: terminate, kill after 3 s,
\* delete and null, all of it only for a process in state Running
stopBackend ==
    /\ timerActive' = FALSE
    /\ proc' = IF proc = "running" THEN "null" ELSE proc

\* MainWindow::closeEvent: stopBackend, then the event is accepted and the
\* event loop ends with the last window
closeEvent ==
    /\ mainPc = "exec"
    /\ stopBackend
    /\ mainPc' = "closed"
    /\ reply' = NoReply
    /\ UNCHANGED <<view, preCheck, attempts, pending, probes, timeouts, inits,
                   nullInits, spawns, startErrors, lateInit, connectDue, api>>
    /\ UNCHANGED nonUi

(***************************************************************************)
(* The DataModel of the user interface                                     *)
(***************************************************************************)
MachineIds == {1, 2}
NoDataCall == [op |-> "none"]

\* what the server sends: the id and the timestamp of a measurement or an
\* event, and requests' results of up to two of them
RecordIds == 1..3
Timestamps == 1..2
Measurements == [id : RecordIds, timestamp : Timestamps]
VectorsOf(S) == {<<>>} \cup {<<a>> : a \in S} \cup {<<a, b>> : a, b \in S}
\* the measurements the server has of a machine: of the first machine any,
\* of the others those of one sensor reading, whose id the first machine's
\* measurements use too
MeasurementsOf(machineId) ==
    IF machineId = 1 THEN Measurements ELSE {m \in Measurements : m.id = 1}

\* every incoming measurement appended, whatever its id
MergeMeasurements_AlwaysAppends(existing, measurements) ==
    existing \o measurements

\* the loop of lines 37-50: an incoming measurement takes the place of the
\* first cached one with its id, or is appended
RECURSIVE MergeMeasurements(_, _)
MergeMeasurements(existing, measurements) ==
    IF measurements = <<>> THEN existing
    ELSE LET newMeasurement == Head(measurements)
             found == {i \in 1..Len(existing) : existing[i].id = newMeasurement.id}
             first == CHOOSE i \in found : \A j \in found : i <= j
         IN  MergeMeasurements(
                 IF found # {}
                 THEN [existing EXCEPT ![first] = newMeasurement]
                 ELSE Append(existing, newMeasurement),
                 Tail(measurements))

\* the oldest first
SortNewestFirst_Ascending(list) ==
    LET n == Len(list)
        sorted == {q \in Permutations(1..n) :
                      \A i, j \in 1..n :
                          i < j => ~(list[q[j]].timestamp < list[q[i]].timestamp)}
    IN  {[i \in 1..n |-> list[q[i]]] : q \in sorted}

\* std::sort with a.timestamp > b.timestamp, lines 53-54 and 104-105: the
\* results it can give, every arrangement of the list in which no element
\* stands after one it must precede; the order of equal timestamps is
\* unspecified
SortNewestFirst(list) ==
    LET n == Len(list)
        sorted == {q \in Permutations(1..n) :
                      \A i, j \in 1..n :
                          i < j => ~(list[q[j]].timestamp > list[q[i]].timestamp)}
    IN  {[i \in 1..n |-> list[q[i]]] : q \in sorted}

\* if (size() > n) resize(n)
Resize(list, n) == IF Len(list) > n THEN SubSeq(list, 1, n) ELSE list

\* DataModel::addMeasurements
addMeasurements(machineId, measurements) ==
    /\ LET existing == m_measurementsByMachine[machineId]
           merged == MergeMeasurements(existing, measurements)
       IN  /\ \E sorted \in SortNewestFirst(merged) :
                  m_measurementsByMachine' =
                      [m_measurementsByMachine EXCEPT
                           ![machineId] = Resize(sorted, MeasurementLimit)]
           /\ dcall' = [op |-> "addMeasurements", machineId |-> machineId,
                        batch |-> measurements, before |-> existing]
    /\ UNCHANGED <<m_events, m_chatHistory, sent, clearedAt>>
    /\ UNCHANGED <<ragVars, chunkVars, apiVars, scoreVars, uiVars>>

Events == [id : RecordIds, timestamp : Timestamps]

\* an incoming event takes the place of the cached one with its id
MergeEvents_Replaces(existing, events) ==
    MergeMeasurements(existing, events)

\* the loop of lines 89-101: an incoming event is appended unless an event
\* with its id is cached
RECURSIVE MergeEvents(_, _)
MergeEvents(existing, events) ==
    IF events = <<>> THEN existing
    ELSE LET newEvent == Head(events)
             found == \E i \in 1..Len(existing) : existing[i].id = newEvent.id
         IN  MergeEvents(IF found THEN existing ELSE Append(existing, newEvent),
                         Tail(events))

\* DataModel::addEvents
addEvents(events) ==
    /\ \E sorted \in SortNewestFirst(MergeEvents(m_events, events)) :
           m_events' = Resize(sorted, EventLimit)
    /\ dcall' = [op |-> "addEvents", batch |-> events, before |-> m_events]
    /\ UNCHANGED <<m_measurementsByMachine, m_chatHistory, sent, clearedAt>>
    /\ UNCHANGED <<ragVars, chunkVars, apiVars, scoreVars, uiVars>>

\* if (m_chatHistory.size() > 100)
ChatLimit == 100

\* the message just added is the one removed
Appended_RemovesLast(history, message) ==
    LET grown == Append(history, message)
    IN  IF Len(grown) > ChatLimit THEN SubSeq(grown, 1, Len(grown) - 1) ELSE grown

\* lines 141-146: append, and removeFirst when the history has grown
\* beyond the limit
Appended(history, message) ==
    LET grown == Append(history, message)
    IN  IF Len(grown) > ChatLimit THEN Tail(grown) ELSE grown

\* DataModel::addChatMessage; the message is known by its number, the
\* count of the messages added up to it
addChatMessage ==
    /\ sent < MaxMessages
    /\ sent' = sent + 1
    /\ m_chatHistory' = Appended(m_chatHistory, sent + 1)
    /\ dcall' = [op |-> "addChatMessage"]
    /\ UNCHANGED <<m_measurementsByMachine, m_events, clearedAt>>
    /\ UNCHANGED <<ragVars, chunkVars, apiVars, scoreVars, uiVars>>

\* DataModel::clearChatHistory
clearChatHistory ==
    /\ m_chatHistory' = <<>>
    /\ clearedAt' = sent
    /\ dcall' = [op |-> "clearChatHistory"]
    /\ UNCHANGED <<m_measurementsByMachine, m_events, sent>>
    /\ UNCHANGED <<ragVars, chunkVars, apiVars, scoreVars, uiVars>>

(***************************************************************************)
(* Specifications                                                          *)
(***************************************************************************)
RagInit ==
    /\ index = NoIndex
    /\ documents = <<>>
    /\ metadata = <<>>
    /\ faissFile = NoFile
    /\ documentsFile = NoFile
    /\ metadataFile = NoFile
    /\ pdfs = [n \in PdfNames |-> Absent]
    /\ pc = "idle"
    /\ todo = {}
    /\ run = NoRun
    /\ pre = NoPre
    /\ last = NoLast

ChunkIdle ==
    /\ text = <<>>
    /\ chunk_size = 1
    /\ overlap = 0
    /\ start = 0
    /\ chunks = <<>>
    /\ cpc = "idle"

TextsUpTo(n) == UNION {[1..k -> Alphabet] : k \in 0..n}

\* chunk_text called with a text and a configuration 0 <= overlap < chunk_size
ChunkInit ==
    /\ text \in TextsUpTo(MaxTextLen)
    /\ chunk_size \in 1..MaxChunkSize
    /\ overlap \in 0..(chunk_size - 1)
    /\ start = 0
    /\ chunks = <<>>
    /\ cpc = "loop"

\* chunk_text called with a text and any overlap >= 0, chunk_size >= 1:
\* the function has no precondition on its arguments
ChunkInitAny ==
    /\ text \in TextsUpTo(MaxTextLen)
    /\ chunk_size \in 1..MaxChunkSize
    /\ overlap \in 0..MaxChunkSize
    /\ start = 0
    /\ chunks = <<>>
    /\ cpc = "loop"

ApiIdle ==
    /\ model = DefaultModel
    /\ call = NoCall

ScoreIdle ==
    /\ dists = <<>>
    /\ scores = <<>>

\* the DataModel as constructed: nothing cached
DataInit ==
    /\ m_measurementsByMachine = [machineId \in MachineIds |-> <<>>]
    /\ m_events = <<>>
    /\ m_chatHistory = <<>>
    /\ dcall = NoDataCall
    /\ sent = 0
    /\ clearedAt = 0

\* main up to line 46: the presenter exists and has no view
UiInit ==
    /\ mainPc = "presenter"
    /\ view = FALSE
    /\ preCheck = "none"
    /\ proc = "null"
    /\ timerActive = FALSE
    /\ attempts = 0
    /\ pending = 0
    /\ probes = 0
    /\ timeouts = 0
    /\ inits = 0
    /\ nullInits = 0
    /\ spawns = 0
    /\ startErrors = 0
    /\ lateInit = FALSE
    /\ connectDue = FALSE
    /\ api = {}
    /\ reply = NoReply

Init == RagInit /\ ChunkIdle /\ ApiIdle /\ ScoreIdle /\ UiInit /\ DataInit

Next ==
    \/ \E n \in PdfNames, t \in PdfTexts : PutPdf(n, t)
    \/ \E n \in PdfNames : RemovePdf(n)
    \/ \E force \in BOOLEAN : setup_rag(force)
    \/ \E n \in PdfNames : IndexFile(n)
    \/ \E n \in PdfNames : ExtractFails(n)
    \/ \E n \in PdfNames : EmbedFails(n)
    \/ WriteFaiss
    \/ WriteDocuments
    \/ WriteMetadata
    \/ WriteFails
    \/ SetupDone
    \/ \E q \in Queries, k \in 0..MaxTopK : chat(q, k)

Spec == Init /\ [][Next]_vars

InitChunk == RagInit /\ ChunkInit /\ ApiIdle /\ ScoreIdle /\ UiInit /\ DataInit

NextChunk ==
    \/ ChunkStep
    \/ ChunkReturn

SpecChunk == InitChunk /\ [][NextChunk]_vars

InitChunkAny == RagInit /\ ChunkInitAny /\ ApiIdle /\ ScoreIdle /\ UiInit /\ DataInit

SpecChunkAny == InitChunkAny /\ [][NextChunk]_vars

InitAdd == RagInit /\ ChunkIdle /\ ApiIdle /\ ScoreIdle /\ UiInit /\ DataInit

NextAdd ==
    \/ \E mdl \in Models : Construct(mdl)
    \/ \E b \in Batches : AddDocuments(b.texts, b.metadatas)
    \/ \E q \in Queries, k \in 0..MaxTopK : Retrieve(q, k)

SpecAdd == InitAdd /\ [][NextAdd]_vars

\* a search has returned the distances of two hits, the nearer first
ScoreInit ==
    /\ dists \in {d \in Distances \X Distances : ~Less(d[2], d[1])}
    /\ scores = <<>>

InitScore == RagInit /\ ChunkIdle /\ ApiIdle /\ ScoreInit /\ UiInit /\ DataInit

NextScore == FormatResults

SpecScore == InitScore /\ [][NextScore]_vars

InitUi == RagInit /\ ChunkIdle /\ ApiIdle /\ ScoreIdle /\ UiInit /\ DataInit

NextUi ==
    \/ main_MainWindow
    \/ main_setView
    \/ main_exec
    \/ \E ok, started \in BOOLEAN : startBackend_finished(ok, started)
    \/ checkBackendHealth
    \/ \E ok \in BOOLEAN : checkBackendHealth_finished(ok)
    \/ onConnectButtonClicked
    \/ onMachineSelected
    \/ \E kind \in Endpoints, outcome \in Outcomes :
           handleReply_finished(kind, outcome)
    \/ BackendExits
    \/ closeEvent

SpecUi == InitUi /\ [][NextUi]_vars

NextArch ==
    \/ \E n \in PdfNames, t \in PdfTexts : PutPdf(n, t)
    \/ \E n \in PdfNames : RemovePdf(n)
    \/ \E force_reindex \in BOOLEAN : data_simulator_main(force_reindex)

SpecArch == Init /\ [][NextArch]_vars

InitData == RagInit /\ ChunkIdle /\ ApiIdle /\ ScoreIdle /\ UiInit /\ DataInit

NextMeasurements ==
    \E machineId \in MachineIds :
        \E measurements \in VectorsOf(MeasurementsOf(machineId)) :
            addMeasurements(machineId, measurements)

SpecMeasurements == InitData /\ [][NextMeasurements]_vars

NextEvents == \E events \in VectorsOf(Events) : addEvents(events)

SpecEvents == InitData /\ [][NextEvents]_vars

NextChat ==
    \/ addChatMessage
    \/ clearChatHistory

SpecChat == InitData /\ [][NextChat]_vars

(***************************************************************************)
(* Properties of the index, the store and the chat request                 *)
(***************************************************************************)
Loaded == RAGManager(faissFile, documentsFile, metadataFile)
Before == RAGManager(pre.faiss, pre.documents, pre.metadata)

\* the three arrays have one length and position i holds the vector of the
\* text at position i
SameChunk(m) ==
    /\ Aligned(m)
    /\ \A i \in 1..Len(m.documents) : m.index.xb[i] = Embed(m.documents[i])

\* C1: whenever no setup_rag is under way, the object's three arrays and the
\* three arrays a load of the store yields have one length, and position i
\* of each belongs to the same chunk.
C1_Alignment ==
    pc = "idle" =>
        /\ SameChunk(Self)
        /\ ~Loaded.raised => SameChunk(Loaded)

\* C2: a chat request served while setup_rag is under way loads and sees
\* the arrays of one generation: the load does not fail on a file not yet
\* written, and there are as many vectors as metadata entries.
C2_RetrieveSeesOneGeneration ==
    last.at \notin {"none", "idle"} =>
        /\ ~last.loadRaised
        /\ last.nv = last.nm

\* C3: after a setup_rag that failed, the store holds the three files it
\* held before, and the object the index that was loaded from them.
C3_FailedBuildChangesNothing ==
    run.result = "failed" =>
        /\ faissFile = pre.faiss
        /\ documentsFile = pre.documents
        /\ metadataFile = pre.metadata
        /\ ~Before.raised =>
               /\ index = Before.index
               /\ documents = Before.documents
               /\ metadata = Before.metadata

\* the entries are those of the files present, one per file
ExactlyCorpus(xb, docs, meta, files) ==
    /\ Len(meta) = Cardinality(Present(files))
    /\ Len(xb) = Len(meta)
    /\ Len(docs) = Len(meta)
    /\ \A n \in Present(files) :
           \E i \in 1..Len(meta) :
               /\ meta[i] = [source |-> n]
               /\ docs[i] = _chunk_text(files[n])
               /\ xb[i] = Embed(docs[i])

\* C4: after a setup_rag with --reindex that succeeded, the object and the
\* persisted vectors and metadata hold exactly the chunks of the files that
\* were present, and nothing of an earlier store.
C4_ForceRebuildReplaces ==
    run.force /\ run.result = "ok" =>
        /\ ExactlyCorpus(index.xb, documents, metadata, pre.pdfs)
        /\ faissFile = SavedFaiss(index)
        /\ metadataFile = SavedMetadata(metadata)

\* C5: a setup_rag that finds the store and is not forced embeds nothing,
\* writes nothing and ends at once, so the store that is served is the one
\* that was persisted; only a forced run or one that finds no store embeds
\* or writes.
C5_CacheReuse ==
    /\ run.result # "none" /\ run.existed /\ ~run.force =>
           /\ run.result \in {"skipped", "nopdfs"}
           /\ ~run.embedded
           /\ ~run.wrote
           /\ pc = "idle"
           /\ faissFile = pre.faiss
           /\ documentsFile = pre.documents
           /\ metadataFile = pre.metadata
    /\ run.embedded \/ run.wrote => run.force \/ ~run.existed

C5_Witness ==
    /\ run.result = "skipped"
    /\ run.existed
    /\ ~run.force
    /\ Present(pdfs) # {}
    /\ Len(faissFile.data) > 0

\* C6: after a setup_rag that succeeded, loading the store yields the
\* vectors, texts and metadata of the object that saved it, and every query
\* gets the same results from both.
C6_SaveLoadRoundTrip ==
    pc = "idle" /\ run.result = "ok" =>
        /\ ~Loaded.raised
        /\ Loaded.index = index
        /\ Loaded.documents = documents
        /\ Loaded.metadata = metadata
        /\ \A q \in Queries, k \in 1..MaxTopK :
               retrieve(Loaded, q, k) = retrieve(Self, q, k)

\* C7: a load that finds different numbers of vectors, text lines and
\* metadata entries fails.
C7_LoadRejectsUnequalCounts ==
    last.at # "none" /\ ~(last.nv = last.nd /\ last.nd = last.nm) =>
        last.loadRaised

\* C8: a load from a store with no artifact does not fail, yields three
\* empty arrays, and the retrieve that follows works.
C8_ColdStartUsable ==
    last.at # "none" /\ last.cold /\ last.top_k >= 1 =>
        /\ ~last.loadRaised
        /\ last.nv = 0 /\ last.nd = 0 /\ last.nm = 0
        /\ ~last.raised
        /\ last.nres = 0

\* C9: retrieve on an index with no entries (empty, or none built or
\* loaded), or with top_k <= 0, returns the empty list and raises nothing.
C9_RetrieveEmptyNeverFails ==
    last.at # "none" /\ ~last.loadRaised /\ (last.nv = 0 \/ last.top_k <= 0) =>
        /\ ~last.raised
        /\ last.nres = 0

\* C16: a retrieve that returns gives at most min(top_k, n) results for an
\* index of n entries (with as many texts and metadata entries): no result
\* is made for an ordinal outside 0..n-1, also when top_k > n.
C16_RetrieveWithinIndex ==
    /\ last.at # "none"
    /\ ~last.loadRaised
    /\ last.nv = last.nd /\ last.nv = last.nm
    /\ ~last.raised
    => last.nres <= Min(last.top_k, last.nv)

\* C19: when self.model.encode raises during setup_rag's build, the three
\* files are those setup_rag found and the object holds what was loaded
\* from them: nothing of the build is committed.
C19_EmbedFailureCommitsNothing ==
    run.result = "failed" /\ run.cause = "embed" =>
        /\ faissFile = pre.faiss
        /\ documentsFile = pre.documents
        /\ metadataFile = pre.metadata
        /\ ~Before.raised =>
               /\ index = Before.index
               /\ documents = Before.documents
               /\ metadata = Before.metadata

\* C22: a store whose three artifacts disagree in length is not kept by
\* setup_rag: when setup_rag without --reindex has returned with "use
\* existing index", the store loads, and to arrays of one length.
C22_CorruptStoreRebuilt ==
    pc = "idle" /\ run.result = "skipped" =>
        /\ ~Loaded.raised
        /\ Aligned(Loaded)

\* the entries that name the file as their source
EntriesOf(meta, n) == Cardinality({i \in 1..Len(meta) : meta[i].source = n})

\* C35: a full rebuild indexes every matching file once: for every PDF
\* there is, the rebuild adds as many entries as the file has chunks (one,
\* the text that add_documents is given), however many PDFs there are.
C35_EachFileIndexedOnce ==
    run.result = "ok" =>
        LET loaded == _load_index(pre.faiss, pre.documents, pre.metadata)
        IN  \A n \in Present(pre.pdfs) :
                EntriesOf(metadata, n) - EntriesOf(loaded.metadata, n) = 1

(***************************************************************************)
(* Properties of the score                                                 *)
(***************************************************************************)
\* C17 as stated: the score of distance 0 is exactly 1, every score lies in
\* (0, 1], and of two results the one with the smaller distance has the
\* strictly greater score.
C17_ScoreStrictlyDecreasing ==
    scores # <<>> =>
        /\ \A i \in 1..Len(scores) :
               /\ dists[i] = Zero => scores[i] = One
               /\ Less(Zero, scores[i])
               /\ ~Less(One, scores[i])
        /\ \A i, j \in 1..Len(scores) :
               Less(dists[i], dists[j]) => Less(scores[j], scores[i])

\* C17, amended: the score of distance 0 is exactly 1, every score lies in
\* (0, 1], and of two results the one with the smaller distance has a
\* score that is not smaller (two small distances can both round to 1).
C17_ScoreNeverIncreasing ==
    scores # <<>> =>
        /\ \A i \in 1..Len(scores) :
               /\ dists[i] = Zero => scores[i] = One
               /\ Less(Zero, scores[i])
               /\ ~Less(One, scores[i])
        /\ \A i, j \in 1..Len(scores) :
               Less(dists[i], dists[j]) => ~Less(scores[i], scores[j])

\* an identical vector came first with score 1, ahead of a result at a
\* greater distance and with a smaller score
C17_Witness ==
    /\ scores # <<>>
    /\ dists[1] = Zero
    /\ scores[1] = One
    /\ \E j \in 2..Len(scores) :
           Less(dists[1], dists[j]) /\ Less(scores[j], scores[1])

C20_AddAppends ==
    /\ call.op = "add" /\ ~call.raised =>
           LET b == call.before
               new == [j \in 1..Len(call.texts) |-> _chunk_text(call.texts[j])]
           IN  /\ Len(index.xb) = Len(b.index.xb) + Len(new)
               /\ \A i \in 1..Len(b.index.xb) : index.xb[i] = b.index.xb[i]
               /\ \A j \in 1..Len(new) :
                      index.xb[Len(b.index.xb) + j] = Embed(new[j])
               /\ Len(documents) = Len(b.documents) + Len(new)
               /\ \A i \in 1..Len(b.documents) : documents[i] = b.documents[i]
               /\ \A j \in 1..Len(new) :
                      documents[Len(b.documents) + j] = new[j]
               /\ Len(metadata) = Len(b.metadata) + Len(call.metadatas)
               /\ \A i \in 1..Len(b.metadata) : metadata[i] = b.metadata[i]
               /\ \A j \in 1..Len(call.metadatas) :
                      metadata[Len(b.metadata) + j] = call.metadatas[j]
    /\ call.op = "retrieve" => Self = call.before

\* a text was added to an object that held an entry of another text
C20_Witness ==
    /\ call.op = "add"
    /\ ~call.raised
    /\ Len(call.before.documents) >= 1
    /\ Len(documents) > Len(call.before.documents)
    /\ documents[Len(documents)] # documents[1]

\* C21: documents.txt as add_documents has saved it holds one line per
\* chunk, also for chunks with a newline inside: a load reads back as many
\* texts as the object that saved them holds.
C21_OneLinePerChunk ==
    call.op = "add" /\ ~call.raised =>
        /\ documentsFile.exists
        /\ Len(Split(documentsFile.data)) = Len(documents)

(***************************************************************************)
(* Properties of the Qt user interface                                     *)
(***************************************************************************)
\* C23: once the close event of the main window has been accepted, no
\* backend process the UI started is running and the process handle is
\* null.
C23_ClosedMeansNoProcess ==
    mainPc = "closed" => proc = "null"

\* C24: when the pre-start probe has succeeded the UI connects to the
\* backend that is there and spawns no process; a process is started, or a
\* start attempted, only after the pre-start probe has failed.
C24_ReachableBackendNotSpawned ==
    /\ preCheck = "ok" => spawns = 0 /\ startErrors = 0 /\ proc = "null"
    /\ (spawns > 0 \/ startErrors > 0 \/ proc # "null") => preCheck = "failed"

\* the pre-start probe has succeeded, the presenter is initialized, the
\* connect has been made, and no process exists
C24_Witness ==
    /\ preCheck = "ok"
    /\ inits = 1
    /\ ~connectDue
    /\ spawns = 0
    /\ proc = "null"

\* C25: health polling is bounded: at most 60 probes are sent; the 61st
\* tick without a successful reply before it stops the timer and reports
\* the timeout once, and no probe is sent after it.
C25_PollingBounded ==
    /\ probes <= HealthCheckLimit
    /\ timeouts <= 1
    /\ timeouts = 1 =>
           /\ ~timerActive
           /\ attempts = HealthCheckLimit + 1
           /\ probes = HealthCheckLimit

\* the timeout has been reported after 60 probes, and every one of them
\* has been answered
C25_Witness ==
    /\ timeouts = 1
    /\ probes = HealthCheckLimit
    /\ pending = 0
    /\ ~timerActive

\* C26: the presenter is initialized once per backend start in every
\* interleaving of timer ticks and probe replies, also with several replies
\* outstanding, and never after the timeout error has been reported.
C26_InitializedOnce ==
    /\ inits <= 1
    /\ ~lateInit

\* C27: initialize never runs with a null view.
C27_InitializeHasView ==
    nullInits = 0

\* a reply handler has called initialize, which has issued its two loads
C27_Witness ==
    /\ inits >= 1
    /\ view
    /\ {"health", "machines"} \subseteq api

\* C28: the UI owns at most one backend process: at most one process is
\* ever started, the handle is non-null only for a process that started,
\* and a start that failed leaves the handle null and no timer running.
C28_AtMostOneProcess ==
    /\ spawns <= 1
    /\ proc # "null" => spawns = 1
    /\ startErrors > 0 => proc = "null" /\ ~timerActive /\ spawns = 0

\* a start has failed within the wait
C28_Witness ==
    /\ startErrors = 1
    /\ preCheck = "failed"
    /\ proc = "null"

\* C29: a reply that finishes calls one of onSuccess and onError, once:
\* onSuccess and then requestCompleted exactly when there is no network
\* error and the body parses as JSON, else onError and then connectionError
\* with the same text.
C29_OneCallbackPerReply ==
    reply.kind # "none" =>
        LET fns == [i \in 1..Len(reply.calls) |-> reply.calls[i].fn]
        IN  IF reply.outcome = "json"
            THEN fns = <<"onSuccess", "requestCompleted">>
            ELSE /\ fns = <<"onError", "connectionError">>
                 /\ reply.calls[1].arg = reply.calls[2].arg

\* a reply without a network error whose body does not parse has finished
C29_Witness ==
    /\ reply.outcome = "invalid"
    /\ reply.calls[1].fn = "onError"

\* C30: a failed request of the presenter shows one error to the view.
C30_OneErrorShown ==
    reply.kind # "none" /\ reply.outcome # "json" =>
        Len(reply.shown) = 1

(***************************************************************************)
(* Properties of the DataModel                                             *)
(***************************************************************************)
NewestFirst(list) ==
    \A i \in 1..(Len(list) - 1) : list[i].timestamp >= list[i + 1].timestamp

DistinctIds(list) ==
    \A i, j \in 1..Len(list) : i # j => list[i].id # list[j].id

Elements(list) == {list[i] : i \in 1..Len(list)}

\* C31: every machine's cached measurements are in non-increasing order of
\* the timestamps and at most as many as the limit; an addition that
\* exceeds the limit keeps as many as the limit and drops the entries with
\* the oldest timestamps.
C31_NewestFirstWithinLimit ==
    /\ \A machineId \in MachineIds :
           /\ NewestFirst(m_measurementsByMachine[machineId])
           /\ Len(m_measurementsByMachine[machineId]) <= MeasurementLimit
    /\ dcall.op = "addMeasurements" =>
           LET merged == MergeMeasurements(dcall.before, dcall.batch)
               kept == m_measurementsByMachine[dcall.machineId]
           IN  /\ Len(kept) = Min(Len(merged), MeasurementLimit)
               /\ Elements(kept) \subseteq Elements(merged)
               /\ \A d \in Elements(merged) \ Elements(kept) :
                      \A k \in Elements(kept) : d.timestamp <= k.timestamp

\* an addition to a full cache has dropped an entry older than one it kept
C31_Witness ==
    /\ dcall.op = "addMeasurements"
    /\ Len(dcall.before) = MeasurementLimit
    /\ LET merged == MergeMeasurements(dcall.before, dcall.batch)
           kept == m_measurementsByMachine[dcall.machineId]
       IN  /\ Len(merged) > MeasurementLimit
           /\ \E d \in Elements(merged) \ Elements(kept) :
                  \E k \in Elements(kept) : d.timestamp < k.timestamp

\* the last measurement of a batch with the id
LastOf(batch, id) ==
    LET at == {i \in 1..Len(batch) : batch[i].id = id}
    IN  batch[CHOOSE i \in at : \A j \in at : i >= j]

\* C32: the ids of a machine's cached measurements are pairwise distinct;
\* a cached entry whose id came in the last batch is that batch's last
\* measurement of the id.
C32_DistinctIdsLastWins ==
    /\ \A machineId \in MachineIds :
           DistinctIds(m_measurementsByMachine[machineId])
    /\ dcall.op = "addMeasurements" =>
           \A k \in Elements(m_measurementsByMachine[dcall.machineId]) :
               k.id \in {b.id : b \in Elements(dcall.batch)} =>
                   k = LastOf(dcall.batch, k.id)

\* a batch has brought an id that was cached, twice and with two
\* timestamps, and the cache holds the second
C32_Witness ==
    /\ dcall.op = "addMeasurements"
    /\ Len(dcall.batch) = 2
    /\ dcall.batch[1].id = dcall.batch[2].id
    /\ dcall.batch[1].timestamp # dcall.batch[2].timestamp
    /\ dcall.batch[1].id \in {b.id : b \in Elements(dcall.before)}
    /\ dcall.batch[2] \in Elements(m_measurementsByMachine[dcall.machineId])

\* C33: the event cache holds at most as many events as the limit, with
\* pairwise distinct ids, in non-increasing order of the timestamps; an
\* incoming event whose id is cached is ignored: the event cached under an
\* id stays as it was for as long as the id is cached.
C33_EventsDistinctNewestFirst ==
    /\ Len(m_events) <= EventLimit
    /\ DistinctIds(m_events)
    /\ NewestFirst(m_events)
    /\ dcall.op = "addEvents" =>
           \A e \in Elements(m_events) :
               e.id \in {b.id : b \in Elements(dcall.before)} =>
                   e \in Elements(dcall.before)

\* a batch has brought an event whose id was cached, with another
\* timestamp, and the cached event is still there
C33_Witness ==
    /\ dcall.op = "addEvents"
    /\ \E b \in Elements(dcall.batch), e \in Elements(dcall.before) :
           /\ b.id = e.id
           /\ b.timestamp # e.timestamp
           /\ e \in Elements(m_events)

\* C34: the chat history holds at most 100 messages, and they are the
\* messages added last (since the history was last cleared), in the order
\* in which they were added.
C34_ChatHistoryKeepsLatest ==
    LET n == Min(ChatLimit, sent - clearedAt)
    IN  /\ Len(m_chatHistory) <= ChatLimit
        /\ m_chatHistory = [i \in 1..n |-> sent - n + i]

\* more messages than the limit have been added to one history, and the
\* oldest has been evicted
C34_Witness ==
    /\ sent - clearedAt > ChatLimit
    /\ Len(m_chatHistory) = ChatLimit
    /\ m_chatHistory[1] = sent - ChatLimit + 1
    /\ m_chatHistory[ChatLimit] = sent

(***************************************************************************)
(* Properties of chunk_text                                                *)
(***************************************************************************)
\* C10: for every text and every 0 <= overlap < chunk_size, each round of
\* the loop moves the window start strictly forward, so the loop ends with a
\* finite list.
C10_StartAdvances == [][chunks' # chunks => start' > start]_vars

\* C11: called with overlap >= chunk_size, chunk_text fails before it
\* produces a passage: no passage is ever collected.
C11_InvalidConfigurationFailsFast ==
    overlap >= chunk_size => chunks = <<>>

\* C12: for every text and every 0 <= overlap < chunk_size, every passage
\* collected is at most chunk_size characters long.
C12_PassageAtMostChunkSize ==
    \A i \in 1..Len(chunks) : Len(chunks[i]) <= chunk_size

\* a run over a text longer than one window has returned several passages,
\* one of them of the full chunk_size
C12_Witness ==
    /\ cpc = "done"
    /\ Len(text) > chunk_size
    /\ chunk_size >= 2
    /\ Len(chunks) >= 2
    /\ \E i \in 1..Len(chunks) : Len(chunks[i]) = chunk_size

\* C13: for a text (not empty) shorter than chunk_size and every
\* 0 <= overlap < chunk_size, chunk_text returns one passage, the stripped
\* text, and no second passage made of the text's tail.
C13_ShortTextOnePassage ==
    cpc = "done" /\ Len(text) > 0 /\ Len(text) < chunk_size =>
        chunks = <<Strip(text)>>

\* the end of the window [st, en) cut after the last terminator inside it,
\* whichever of the four kinds it is; en when there is none
NearestTerminatorCut(s, st, en) ==
    LET found == {RFind(s, Terminators[t], st, en) : t \in 1..Len(Terminators)}
                     \ {-1}
    IN  IF found = {} THEN en
        ELSE (CHOOSE p \in found : \A r \in found : p >= r) + 1

\* C14: a round whose window ends before the end of the text cuts after
\* the terminator nearest to the window's end, whichever of ". ", "! ",
\* "? " and the blank line it is, and at chunk_size only when the window
\* holds no terminator.
C14_CutsAtNearestTerminator ==
    [][chunks' # chunks /\ start >= 0 /\ start + chunk_size < Len(text) =>
           start' + overlap = NearestTerminatorCut(text, start, start + chunk_size)]_vars

\* C36: chunking loses no text: the first passage is taken from position
\* 0, every later passage from a position at or before the one where the
\* passage before it ended, and the last passage ends at the end of the
\* text, so that every character is in a passage.
C36_NoTextLost ==
    [][/\ chunks' # chunks =>
              PyBound(start, Len(text)) <=
                  (IF chunks = <<>> THEN 0 ELSE PyBound(start + overlap, Len(text)))
       /\ cpc = "loop" /\ cpc' = "done" /\ chunks # <<>> =>
              start + overlap >= Len(text)]_vars

====
